---------------------------- MODULE Spec2Model ----------------------------
(***************************************************************************)
(* curtain_control: the TCP client loop of src/bin/main.rs (connect,       *)
(* register, serve, reconnect), its line framer and its command            *)
(* dispatcher handle_line.  The same framer and dispatcher are repeated in *)
(* src/tcp_client.rs (TcpClient::serve / TcpClient::handle_line).          *)
(*                                                                         *)
(* A step of the session task is the code between two suspension points    *)
(* (timer, connect, read, write_all); the scan of a received chunk is      *)
(* taken one byte at a time.                                               *)
(*                                                                         *)
(* A byte of the wire is modelled by a record.  The text of one JSON       *)
(* object is one such record (its fields are the members the deserializer  *)
(* looks at), so the line buffer counts these units; the capacity of the   *)
(* line buffer (512 in the source) and of the read chunk (128) are scaled  *)
(* to LineBufLen and ChunkLen.                                             *)
(*                                                                         *)
(* Spec is main from the two gate loops on, with the network task as the   *)
(* source of link and address events.  SpecWifi is the `connection` task   *)
(* together with the network task and the gate; there the link of the      *)
(* stack follows the station state.                                        *)
(***************************************************************************)
EXTENDS Integers, Sequences, FiniteSets, TLC

\* ------------------------------------------------------------------ bounds
\* line_buf.len(): `[0u8; 512]` in the source, scaled.
LineBufLen == 3
\* chunk.len(): `[0u8; 128]` in the source, scaled.
ChunkLen == 3
\* connect_async calls are counted up to MaxAttempts.
MaxAttempts == 3

\* --------------------------------------------------------------- constants
RECONNECT_DELAY_MS == 2000
INTER_ATTEMPT_DELAY_MS == 1000
WIFI_RETRY_DELAY_MS == 5000
MAX_VALUE == 100
U8_RANGE == 256

\* Option<u32>: <<>> is None, <<n>> is Some(n).
None == <<>>
Some(n) == <<n>>
IsSome(o) == o # None
Unwrap(o) == o[1]

\* ------------------------------------------------------------ wire bytes
\* k: "lf" (0x0A), "cr" (0x0D), "x" (an ASCII byte that is no JSON text),
\*    "bad" (0xFF, never part of valid UTF-8), "c3" and "a9" (the lead and the
\*    continuation byte of a two-byte UTF-8 character), "json" (the text of
\*    one JSON object with the members type, id, value; ty = "" when `type`
\*    is absent).
Byte(k) == [k |-> k, ty |-> "", id |-> None, value |-> None]
Json(ty, id, value) == [k |-> "json", ty |-> ty, id |-> id, value |-> value]
LF == Byte("lf")
CR == Byte("cr")
XX == Byte("x")
BAD == Byte("bad")
C3 == Byte("c3")
A9 == Byte("a9")

Ids == {7, 8}
Values == {0, 42, 100, 101, 298, -5}
OptIds == {None} \cup {Some(i) : i \in Ids}
OptValues == {None} \cup {Some(v) : v \in Values}
Types == {"set_value", "get_value", "calibrate"}

\* The objects a controller that sends one command per line may send.
CommandTexts ==
    {Json("set_value", i, v) : i \in OptIds, v \in OptValues}
    \cup {Json(t, i, None) : t \in Types \ {"set_value"}, i \in OptIds}
    \cup {Json("ping", Some(7), None), Json("", Some(7), None)}

\* The bytes a peer that sends arbitrary bytes is drawn from.
RawBytes == {LF, CR, XX, BAD, C3, A9, Json("set_value", Some(7), Some(42)),
             Json("get_value", Some(8), None)}


\* ------------------------------------------------------------- line framer
\* core::str::from_utf8(line).is_ok(): 0xFF is never valid, a lead byte
\* needs its continuation byte, a continuation byte needs its lead byte;
\* every other byte of the model is ASCII.
RECURSIVE Utf8Valid(_)
Utf8Valid(line) ==
    IF line = <<>> THEN TRUE
    ELSE CASE line[1].k \in {"bad", "a9"} -> FALSE
           [] line[1].k = "c3" ->
                /\ Len(line) >= 2
                /\ line[2].k = "a9"
                /\ Utf8Valid(SubSeq(line, 3, Len(line)))
           [] OTHER -> Utf8Valid(Tail(line))

\* s.trim_end_matches('\r'): every trailing CR is removed.
RECURSIVE TrimEndCr(_)
TrimEndCr(s) ==
    IF s # <<>> /\ s[Len(s)].k = "cr" THEN TrimEndCr(SubSeq(s, 1, Len(s) - 1)) ELSE s

\* `line_len < line_buf.len()`: there is room for one more byte.
HasRoom(line) == Len(line) < LineBufLen

\* Variant of PushByte: on a full buffer only the new byte is dropped.
DropByteOnly(line, b) == IF HasRoom(line) THEN Append(line, b) ELSE line

\* What the scan does with one byte b that is not a line-feed:
\* store it, or (buffer full) drop the byte and the buffered bytes.
PushByte(line, b) == IF HasRoom(line) THEN Append(line, b) ELSE <<>>

\* Variant of LineText: a lossy decode, which hands over a line that is not
\* UTF-8.
LineTextLossy(line) == TrimEndCr(line)

\* The text handed to handle_line when a line-feed arrives, <<>> when the
\* line is not handed over (not UTF-8, or empty after the trim).
LineText(line) == IF Utf8Valid(line) THEN TrimEndCr(line) ELSE <<>>

\* ------------------------------------------------------------- JSON parse
\* serde_json_core skips JSON whitespace (CR is whitespace) before the value
\* and, in from_str's end(), after it.
RECURSIVE TrimStartCr(_)
TrimStartCr(s) == IF s # <<>> /\ s[1].k = "cr" THEN TrimStartCr(Tail(s)) ELSE s

\* A member typed Option<u32>: absent, or a non-negative number.
IsOptU32(o) == o = None \/ Unwrap(o) >= 0

ParseErr == [ok |-> FALSE, ty |-> "", id |-> None, value |-> None]

\* from_str::<IncomingCommand>(s): s must be one object and nothing else,
\* `type` is required, id and value are Option<u32>.
Parse(s) ==
    LET t == TrimStartCr(TrimEndCr(s)) IN
    IF Len(t) = 1 /\ t[1].k = "json" /\ t[1].ty # ""
       /\ IsOptU32(t[1].id) /\ IsOptU32(t[1].value)
    THEN [ok |-> TRUE, ty |-> t[1].ty, id |-> t[1].id, value |-> t[1].value]
    ELSE ParseErr

\* ---------------------------------------------------------------- messages
NoMsg == [type |-> "none", id |-> 0, ok |-> FALSE, text |-> "", value |-> 0]
Newline == [type |-> "lf", id |-> 0, ok |-> FALSE, text |-> "", value |-> 0]
Register ==
    [type |-> "register", id |-> 0, ok |-> FALSE,
     text |-> "8a3a3b0e-10b0-4f5e-bb14-7eac9ced0001", value |-> 0]
Ack(id) == [type |-> "ack", id |-> id, ok |-> TRUE, text |-> "", value |-> 0]
Error(id, message) ==
    [type |-> "error", id |-> id, ok |-> FALSE, text |-> message, value |-> 0]
Value(id, v) == [type |-> "value", id |-> id, ok |-> FALSE, text |-> "", value |-> v]

\* --------------------------------------------------------------- dispatcher
\* `v as u8`
AsU8(v) == v % U8_RANGE

\* Variants of the range check: off by one; applied to the narrowed value.
InRangeExclusive(v) == v < MAX_VALUE
InRangeNarrowed(v) == AsU8(v) <= MAX_VALUE

InRangeU8(v) == v < U8_RANGE

\* `v <= 100`
InRange(v) == v <= MAX_VALUE

\* Variant of the missing-value arm: an absent value read as 0 and stored.
MissingValueAsZero(cmd, cv) ==
    [cached |-> 0, msg |-> Ack(Unwrap(cmd.id)), cal |-> FALSE]

\* `else if let Some(id) = cmd.id`: set_value with an id and no value.
MissingValue(cmd, cv) ==
    [cached |-> cv, msg |-> Error(Unwrap(cmd.id), "missing value"), cal |-> FALSE]

\* Variant of the "set_value" arm: the ack is formatted and written
\* without the value having been stored first.
SetValueAckFirst(cmd, cv) ==
    IF IsSome(cmd.id) /\ IsSome(cmd.value)
    THEN IF InRange(Unwrap(cmd.value))
         THEN [cached |-> cv, msg |-> Ack(Unwrap(cmd.id)), cal |-> FALSE]
         ELSE [cached |-> cv,
               msg |-> Error(Unwrap(cmd.id), "value out of range 0..100"),
               cal |-> FALSE]
    ELSE IF IsSome(cmd.id)
         THEN MissingValue(cmd, cv)
         ELSE [cached |-> cv, msg |-> NoMsg, cal |-> FALSE]

\* The "set_value" arm: the new cached value and the response.
SetValue(cmd, cv) ==
    IF IsSome(cmd.id) /\ IsSome(cmd.value)
    THEN IF InRange(Unwrap(cmd.value))
         THEN [cached |-> AsU8(Unwrap(cmd.value)), msg |-> Ack(Unwrap(cmd.id)),
               cal |-> FALSE]
         ELSE [cached |-> cv,
               msg |-> Error(Unwrap(cmd.id), "value out of range 0..100"),
               cal |-> FALSE]
    ELSE IF IsSome(cmd.id)
         THEN MissingValue(cmd, cv)
         ELSE [cached |-> cv, msg |-> NoMsg, cal |-> FALSE]

\* Variant of the "get_value" arm: an absent id read as 0.
GetValueDefaultId(cmd, cv) ==
    [cached |-> cv,
     msg |-> Value(IF IsSome(cmd.id) THEN Unwrap(cmd.id) ELSE 0, AsU8(cv)),
     cal |-> FALSE]

\* The "get_value" arm.
GetValue(cmd, cv) ==
    IF IsSome(cmd.id)
    THEN [cached |-> cv, msg |-> Value(Unwrap(cmd.id), AsU8(cv)), cal |-> FALSE]
    ELSE [cached |-> cv, msg |-> NoMsg, cal |-> FALSE]

\* Variant of the "calibrate" arm: the ack is written without running
\* calibrate_routine first.
CalibrateNotAwaited(cmd, cv) ==
    IF IsSome(cmd.id)
    THEN [cached |-> cv, msg |-> Ack(Unwrap(cmd.id)), cal |-> FALSE]
    ELSE [cached |-> cv, msg |-> NoMsg, cal |-> FALSE]

\* The "calibrate" arm: calibrate_routine() is awaited, then the ack written.
Calibrate(cmd, cv) ==
    IF IsSome(cmd.id)
    THEN [cached |-> cv, msg |-> Ack(Unwrap(cmd.id)), cal |-> TRUE]
    ELSE [cached |-> cv, msg |-> NoMsg, cal |-> FALSE]

\* handle_line up to its first suspension point: the parsed command, the
\* new cached value, the response to write and whether calibrate_routine
\* runs first.
Dispatch(cmd, cv) ==
    IF ~cmd.ok THEN [cached |-> cv, msg |-> NoMsg, cal |-> FALSE]
    ELSE CASE cmd.ty = "set_value" -> SetValue(cmd, cv)
           [] cmd.ty = "get_value" -> GetValue(cmd, cv)
           [] cmd.ty = "calibrate" -> Calibrate(cmd, cv)
           [] OTHER -> [cached |-> cv, msg |-> NoMsg, cal |-> FALSE]


\* ------------------------------------------------------------------- state
VARIABLES
    pc,            \* where the client loop of main is suspended
    cached_value,  \* `let mut cached_value: u8`
    line_buf,      \* line_buf[..line_len]
    chunk_left,    \* bytes of chunk[..n] the scan has not reached yet
    hl,            \* the handle_line call of the latest byte scanned, if any:
                   \* command, response, results of its write_all calls
    tx,            \* what reached the socket of this session: first and last
                   \* item written, number of register messages
    write_failed,  \* a write_all of a response has failed on this socket
    ended,         \* why the previous connection attempt or session ended
    trail,         \* timers and connect calls since then (both kept until
                   \* the next serve phase starts)
    ev,            \* what the scan did with the latest byte
    overflowed,    \* the line being received has overflowed line_buf
    accepted,      \* value member of the latest set_value with an id and a
                   \* value in 0..100
    peer,          \* the controller: "raw" sends arbitrary bytes; "text" /
                   \* "eol" sends one JSON text, then a line-feed, and so on
    unchunked,     \* the line framer run over the bytes of the session as
                   \* one stream, without reads
    stale,         \* bytes of the previous session were in line_buf when
                   \* this session began (kept until its first read returns)
    link_up,       \* stack.is_link_up() as the network task last left it
    has_ip,        \* stack.config_v4() is Some
    wpc,           \* where the `connection` task is
    sta_state,     \* wifi::sta_state()
    started,       \* controller.is_started() is Ok(true)
    wcause,        \* why the `connection` task is about to connect
    wtrail,        \* timers of that task since then
    attempts       \* connect_async calls made, counted up to MaxAttempts

\* State of the client loop of main, of the network stack, and of the
\* `connection` task.
svars == <<pc, cached_value, line_buf, chunk_left, hl, tx, write_failed,
           ended, trail, ev, overflowed, accepted, peer, unchunked, stale>>
gvars == <<link_up, has_ip>>
wvars == <<wpc, sta_state, started, wcause, wtrail, attempts>>

vars == <<svars, gvars, wvars>>

line_len == Len(line_buf)

NoCall ==
    [called |-> FALSE, cmd |-> ParseErr, before |-> 0, tail |-> FALSE,
     msg |-> NoMsg, writes |-> <<>>, cal |-> FALSE]

NoTx == [first |-> NoMsg, last |-> NoMsg, regs |-> 0]

\* write_all(m) returned Ok: m is on the wire.
Sent(t, m) ==
    [first |-> IF t.first = NoMsg THEN m ELSE t.first,
     last |-> m,
     regs |-> t.regs + (IF m = Register THEN 1 ELSE 0)]

Timer(ms) == [e |-> "timer", ms |-> ms]
ConnectCall == [e |-> "connect", ms |-> 0]

\* The bytes the controller may send next.
PeerBytes ==
    CASE peer = "raw" -> RawBytes
      [] peer = "text" -> CommandTexts
      [] OTHER -> {LF}

PeerAfter(b) ==
    CASE peer = "raw" -> "raw"
      [] peer = "text" -> "eol"
      [] OTHER -> "text"

Init ==
    /\ pc = "gate_link"
    /\ cached_value = 0
    /\ line_buf = <<>>
    /\ chunk_left = 0
    /\ hl = NoCall
    /\ tx = NoTx
    /\ write_failed = FALSE
    /\ ended = "none"
    /\ trail = <<>>
    /\ ev = "none"
    /\ overflowed = FALSE
    /\ accepted = 0
    /\ peer \in {"raw", "text"}
    /\ unchunked = <<>>
    /\ stale = FALSE
    /\ link_up = FALSE
    /\ has_ip = FALSE
    /\ wpc = "top"
    /\ sta_state = "Invalid"
    /\ started = FALSE
    /\ wcause = "boot"
    /\ wtrail = <<>>
    /\ attempts = 0

\* Variant: the setpoint declared inside the client loop, so that every
\* pass of the loop starts from 0 again.
DeclaredInLoop(cv) == 0

\* `let mut cached_value: u8 = 0;` stands before `loop {`: a pass of the
\* client loop starts with the value the previous pass left.
AcrossSessions(cv) == cv

\* Variant: line_buf and line_len declared before the client loop, so that
\* a session starts with what the previous one left.
KeptLineBuf(old) == old

\* `let mut line_buf = [0u8; 512]; let mut line_len = 0usize;` after the
\* register block: every serve phase starts with an empty line.
FreshLineBuf(old) == <<>>

\* Variant: line_len declared inside the read loop, so that every read
\* starts a new line.
PerReadLine(line) == <<>>

\* line_buf and line_len are declared before `'read_loop: loop`: the bytes
\* of an unfinished line are still there when the next read returns.
AcrossReads(line) == line

\* ------------------------------------------------- control flow of the loop
\* Variant of OnConnectErr: the failure is logged and the loop body goes on.
ConnectErrFallsThrough == "reg_body"
\* `Err(e) => { ...; Timer::after(RECONNECT_DELAY_MS).await; continue; }`
OnConnectErr == "connect_err"
\* Variant of OnRegisterErr: the failure is logged and the block goes on.
RegisterErrIgnored(next) == next
\* Variant: a failed register write leaves the client loop.
RegisterErrReturns(next) == "returned"
\* register body or newline write failed: `continue`
OnRegisterErr(next) == "delay"
\* Variant of OnReadEnd: back to the top of the loop at once.
ReadEndContinues == "delay"
\* `break 'read_loop` on Ok(0) and on Err(e)
OnReadEnd == "reconnect"
\* a failed write_all in handle_line is logged and handle_line goes on
OnWriteErr(next) == next
\* after the for loop over chunk[..n] / after handle_line returns
Resume(left) == IF left = 0 THEN "read" ELSE "scan"

\* ---------------------------------------------------------------- actions
\* `Timer::after(Duration::from_millis(1_000)).await` at the top of the loop,
\* then a new TcpSocket, up to the connect call.
InterAttemptDelay ==
    /\ pc = "delay"
    /\ pc' = "connect"
    /\ trail' = Append(trail, Timer(INTER_ATTEMPT_DELAY_MS))
    /\ tx' = NoTx
    /\ write_failed' = FALSE
    /\ cached_value' = AcrossSessions(cached_value)
    /\ UNCHANGED <<line_buf, chunk_left, hl, ended, ev,
                   overflowed, accepted, peer>>
    /\ UNCHANGED <<unchunked, stale, gvars, wvars>>

\* TcpSocket::new + socket.connect(..) returned Ok(()).
ConnectOk ==
    /\ pc = "connect"
    /\ pc' = "reg_body"
    /\ trail' = Append(trail, ConnectCall)
    /\ peer' = IF peer = "raw" THEN "raw" ELSE "text"
    /\ UNCHANGED <<cached_value, line_buf, chunk_left, hl, tx, write_failed,
                   ended, ev, overflowed, accepted>>
    /\ UNCHANGED <<unchunked, stale, gvars, wvars>>

\* socket.connect(..) returned Err(e).
ConnectErr ==
    /\ pc = "connect"
    /\ pc' = OnConnectErr
    /\ ended' = "connect_err"
    /\ trail' = <<>>
    /\ UNCHANGED <<cached_value, line_buf, chunk_left, hl, tx, write_failed,
                   ev, overflowed, accepted, peer>>
    /\ UNCHANGED <<unchunked, stale, gvars, wvars>>

\* `Timer::after(RECONNECT_DELAY_MS).await; continue;` of the Err arm.
ConnectErrDelay ==
    /\ pc = "connect_err"
    /\ pc' = "delay"
    /\ trail' = Append(trail, Timer(RECONNECT_DELAY_MS))
    /\ UNCHANGED <<cached_value, line_buf, chunk_left, hl, tx, write_failed,
                   ended, ev, overflowed, accepted, peer>>
    /\ UNCHANGED <<unchunked, stale, gvars, wvars>>

\* socket.write_all(reg.as_bytes())
RegisterBody ==
    /\ pc = "reg_body"
    /\ \E ok \in BOOLEAN :
        IF ok
        THEN /\ tx' = Sent(tx, Register)
             /\ pc' = "reg_nl"
             /\ UNCHANGED <<ended, trail>>
        ELSE /\ pc' = OnRegisterErr("reg_nl")
             /\ ended' = "register_err"
             /\ trail' = <<>>
             /\ UNCHANGED tx
    /\ UNCHANGED <<cached_value, line_buf, chunk_left, hl, write_failed, ev,
                   overflowed, accepted, peer>>
    /\ UNCHANGED <<unchunked, stale, gvars, wvars>>

\* socket.write_all(b"\n") of the register block; on Ok the serve phase
\* starts with a fresh line_buf and line_len = 0.
RegisterNewline ==
    /\ pc = "reg_nl"
    /\ \E ok \in BOOLEAN :
        IF ok
        THEN /\ tx' = Sent(tx, Newline)
             /\ pc' = "read"
             /\ ended' = "none"
             /\ trail' = <<>>
             /\ line_buf' = FreshLineBuf(line_buf)
             /\ chunk_left' = 0
             /\ unchunked' = <<>>
             /\ stale' = (line_buf # <<>>)
        ELSE /\ pc' = OnRegisterErr("read")
             /\ ended' = "register_err"
             /\ trail' = <<>>
             /\ UNCHANGED <<tx, line_buf, chunk_left, unchunked, stale>>
    /\ UNCHANGED <<cached_value, hl, write_failed, ev, overflowed, accepted,
                   peer, gvars, wvars>>

\* socket.read(&mut chunk) returned Ok(n), 0 < n <= chunk.len().
ReadChunk ==
    /\ pc = "read"
    /\ \E n \in 1..ChunkLen : chunk_left' = n
    /\ pc' = "scan"
    /\ line_buf' = AcrossReads(line_buf)
    /\ UNCHANGED <<cached_value, hl, tx, write_failed, ended, trail,
                   ev, overflowed, accepted, peer>>
    /\ stale' = FALSE
    /\ UNCHANGED <<unchunked, gvars, wvars>>

\* socket.read returned Ok(0): the server closed the connection.
ReadEof ==
    /\ pc = "read"
    /\ pc' = OnReadEnd
    /\ ended' = "eof"
    /\ trail' = <<>>
    /\ hl' = NoCall
    /\ ev' = "none"
    /\ overflowed' = FALSE
    /\ UNCHANGED <<cached_value, line_buf, chunk_left, tx, write_failed,
                   accepted, peer>>
    /\ stale' = FALSE
    /\ UNCHANGED <<unchunked, gvars, wvars>>

\* socket.read returned Err(e).
ReadErr ==
    /\ pc = "read"
    /\ pc' = OnReadEnd
    /\ ended' = "read_err"
    /\ trail' = <<>>
    /\ hl' = NoCall
    /\ ev' = "none"
    /\ overflowed' = FALSE
    /\ UNCHANGED <<cached_value, line_buf, chunk_left, tx, write_failed,
                   accepted, peer>>
    /\ stale' = FALSE
    /\ UNCHANGED <<unchunked, gvars, wvars>>

\* `Timer::after(RECONNECT_DELAY_MS).await` after the read loop.
ReconnectDelay ==
    /\ pc = "reconnect"
    /\ pc' = "delay"
    /\ trail' = Append(trail, Timer(RECONNECT_DELAY_MS))
    /\ UNCHANGED <<cached_value, line_buf, chunk_left, hl, tx, write_failed,
                   ended, ev, overflowed, accepted, peer>>
    /\ UNCHANGED <<unchunked, stale, gvars, wvars>>

\* One byte of the chunk that is not a line-feed: stored, or on a full
\* buffer dropped together with the buffered bytes.
ScanStore ==
    /\ pc = "scan"
    /\ \E b \in PeerBytes \ {LF} :
        /\ line_buf' = PushByte(line_buf, b)
        /\ ev' = IF HasRoom(line_buf) THEN "byte" ELSE "overflow"
        /\ overflowed' = (overflowed \/ ~HasRoom(line_buf))
        /\ peer' = PeerAfter(b)
        /\ unchunked' = PushByte(unchunked, b)
    /\ chunk_left' = chunk_left - 1
    /\ pc' = Resume(chunk_left')
    /\ hl' = NoCall
    /\ UNCHANGED <<cached_value, tx, write_failed, ended, trail, accepted>>
    /\ UNCHANGED <<stale, gvars, wvars>>

\* A line-feed whose line is not handed to handle_line: not UTF-8, or empty
\* after the trim.
ScanDrop ==
    /\ pc = "scan"
    /\ LF \in PeerBytes
    /\ LineText(line_buf) = <<>>
    /\ ev' = IF Utf8Valid(line_buf) THEN "empty" ELSE "non_utf8"
    /\ line_buf' = <<>>
    /\ overflowed' = FALSE
    /\ peer' = PeerAfter(LF)
    /\ chunk_left' = chunk_left - 1
    /\ pc' = Resume(chunk_left')
    /\ hl' = NoCall
    /\ UNCHANGED <<cached_value, tx, write_failed, ended, trail, accepted>>
    /\ unchunked' = <<>>
    /\ UNCHANGED <<stale, gvars, wvars>>

\* Variant: handle_line not awaited, the scan goes on while the response is
\* still to be written.
HandleLineSpawned(d, left) == Resume(left)

\* `handle_line(..).await` inside the scan: where the task is when the call
\* suspends for the first time (calibrate_routine, or the first write_all),
\* or where the scan resumes when the call returns without suspending.
AfterDispatch(d, left) ==
    IF d.cal THEN "calibrate"
    ELSE IF d.msg # NoMsg THEN "write_body"
    ELSE Resume(left)

\* A line-feed whose line is handed to handle_line, up to the first
\* suspension point of handle_line (or its return when it writes nothing).
ScanDispatch ==
    /\ pc = "scan"
    /\ LF \in PeerBytes
    /\ LineText(line_buf) # <<>>
    /\ LET cmd == Parse(LineText(line_buf))
           d == Dispatch(cmd, cached_value)
       IN /\ cached_value' = d.cached
          /\ hl' = [called |-> TRUE, cmd |-> cmd, before |-> cached_value,
                    tail |-> overflowed, msg |-> d.msg, writes |-> <<>>,
                    cal |-> FALSE]
          /\ accepted' = IF cmd.ok /\ cmd.ty = "set_value" /\ IsSome(cmd.id)
                            /\ IsSome(cmd.value) /\ Unwrap(cmd.value) \in 0..100
                         THEN Unwrap(cmd.value) ELSE accepted
          /\ chunk_left' = chunk_left - 1
          /\ pc' = AfterDispatch(d, chunk_left')
          /\ line_buf' = IF pc' \in {"calibrate", "write_body"}
                          THEN line_buf ELSE <<>>
    /\ ev' = "line"
    /\ overflowed' = FALSE
    /\ peer' = PeerAfter(LF)
    /\ UNCHANGED <<tx, write_failed, ended, trail>>
    /\ unchunked' = IF pc' \in {"calibrate", "write_body"}
                    THEN unchunked ELSE <<>>
    /\ UNCHANGED <<stale, gvars, wvars>>

\* calibrate_routine(): Timer::after(200 ms).
CalibrateRoutine ==
    /\ pc = "calibrate"
    /\ hl' = [hl EXCEPT !.cal = TRUE]
    /\ pc' = "write_body"
    /\ UNCHANGED <<cached_value, line_buf, chunk_left, tx, write_failed,
                   ended, trail, ev, overflowed, accepted, peer>>
    /\ UNCHANGED <<unchunked, stale, gvars, wvars>>

\* socket.write_all(msg.as_bytes()) in handle_line.
WriteBody ==
    /\ pc = "write_body"
    /\ \E ok \in BOOLEAN :
        /\ tx' = IF ok THEN Sent(tx, hl.msg) ELSE tx
        /\ write_failed' = (write_failed \/ ~ok)
        /\ hl' = [hl EXCEPT !.writes = Append(@, ok)]
        /\ pc' = IF ok THEN "write_nl" ELSE OnWriteErr("write_nl")
    /\ UNCHANGED <<cached_value, line_buf, chunk_left, ended, trail, ev,
                   overflowed, accepted, peer>>
    /\ UNCHANGED <<unchunked, stale, gvars, wvars>>

\* socket.write_all(b"\n") in handle_line, then handle_line returns and the
\* scan sets line_len = 0.
WriteNewline ==
    /\ pc = "write_nl"
    /\ \E ok \in BOOLEAN :
        /\ tx' = IF ok THEN Sent(tx, Newline) ELSE tx
        /\ write_failed' = (write_failed \/ ~ok)
        /\ hl' = [hl EXCEPT !.writes = Append(@, ok)]
        /\ pc' = IF ok THEN Resume(chunk_left) ELSE OnWriteErr(Resume(chunk_left))
    /\ line_buf' = <<>>
    /\ UNCHANGED <<cached_value, chunk_left, ended, trail, ev, overflowed,
                   accepted, peer>>
    /\ unchunked' = <<>>
    /\ UNCHANGED <<stale, gvars, wvars>>

\* ------------------------------------------- network stack and the gate
\* The panic handler stops the whole firmware: no task runs after a panic.
Running == wpc # "panicked"

\* The gate is suspended in one of its two 500 ms timers; the network task
\* runs the stack only while main is suspended.
GateWaitPcs == {"gate_link_wait", "gate_ip_wait"}
GatePcs == {"gate_link", "gate_ip"} \cup GateWaitPcs

\* net_task: the stack sees the link come up.
NetLinkUp ==
    /\ Running /\ pc \in GateWaitPcs
    /\ ~link_up
    /\ link_up' = TRUE
    /\ UNCHANGED <<has_ip, svars, wvars>>

\* net_task: the stack sees the link go down; the stack was configured
\* with Config::dhcpv4, whose address is withdrawn with the link.
NetLinkDown ==
    /\ Running /\ pc \in GateWaitPcs
    /\ link_up
    /\ link_up' = FALSE
    /\ has_ip' = FALSE
    /\ UNCHANGED <<svars, wvars>>

\* net_task: DHCP configured an address; this takes a link.
NetConfigured ==
    /\ Running /\ pc \in GateWaitPcs
    /\ link_up /\ ~has_ip
    /\ has_ip' = TRUE
    /\ UNCHANGED <<link_up, svars, wvars>>

\* net_task: DHCP lost its lease.
NetDeconfigured ==
    /\ Running /\ pc \in GateWaitPcs
    /\ has_ip
    /\ has_ip' = FALSE
    /\ UNCHANGED <<link_up, svars, wvars>>

GateStep(next) ==
    /\ Running
    /\ pc' = next
    /\ UNCHANGED <<cached_value, line_buf, chunk_left, hl, tx, write_failed,
                   ended, trail, ev, overflowed, accepted, peer, unchunked,
                   stale, gvars, wvars>>

\* Variant: the gate opens as soon as the link is up.
ReleaseOnLink(ip) == "delay"

\* The second loop, entered right after the first one breaks:
\* `if let Some(config) = stack.config_v4() { break; }`, else the timer.
GateAfterLink(ip) == IF ip THEN "delay" ELSE "gate_ip_wait"

\* `if stack.is_link_up() { break; }`, else the 500 ms timer.
GateLinkPoll ==
    /\ pc = "gate_link"
    /\ GateStep(IF link_up THEN GateAfterLink(has_ip) ELSE "gate_link_wait")

\* Timer::after(500 ms) of the first loop.
GateLinkTimer ==
    /\ pc = "gate_link_wait"
    /\ GateStep("gate_link")

\* `if let Some(config) = stack.config_v4() { break; }` after a timer of
\* the second loop; the link is not looked at again.
GateIpPoll ==
    /\ pc = "gate_ip"
    /\ GateStep(IF has_ip THEN "delay" ELSE "gate_ip_wait")

\* Timer::after(500 ms) of the second loop.
GateIpTimer ==
    /\ pc = "gate_ip_wait"
    /\ GateStep("gate_ip")

Next ==
    \/ NetLinkUp
    \/ NetLinkDown
    \/ NetConfigured
    \/ NetDeconfigured
    \/ GateLinkPoll
    \/ GateLinkTimer
    \/ GateIpPoll
    \/ GateIpTimer
    \/ InterAttemptDelay
    \/ ConnectOk
    \/ ConnectErr
    \/ ConnectErrDelay
    \/ RegisterBody
    \/ RegisterNewline
    \/ ReadChunk
    \/ ReadEof
    \/ ReadErr
    \/ ReconnectDelay
    \/ ScanStore
    \/ ScanDrop
    \/ ScanDispatch
    \/ CalibrateRoutine
    \/ WriteBody
    \/ WriteNewline

Spec == Init /\ [][Next]_vars

\* The steps of the client loop that do not wait for the controller: the
\* three timers, the completion of connect and of every write_all, the
\* calibration timer, and the scan of a byte that has been read.  A read
\* is left out: the controller may stay silent for ever.
Progress ==
    \/ InterAttemptDelay
    \/ ConnectOk
    \/ ConnectErr
    \/ ConnectErrDelay
    \/ RegisterBody
    \/ RegisterNewline
    \/ ReconnectDelay
    \/ ScanStore
    \/ ScanDrop
    \/ ScanDispatch
    \/ CalibrateRoutine
    \/ WriteBody
    \/ WriteNewline

\* The executor polls the task whenever a timer has fired or the transport
\* has completed an operation, and both always happen.
FairSpec == Spec /\ WF_vars(Progress)


\* ---------------------------------------------------- the connection task
WifiTaskPcs ==
    {"top", "wait_event", "quiesce", "check_started", "set_config", "start",
     "connect", "backoff"}

\* The task is suspended in an await.
WifiAwaitPcs == {"wait_event", "quiesce", "start", "connect", "backoff"}

WifiStep(next) ==
    /\ Running
    /\ wpc' = next
    /\ UNCHANGED <<svars, gvars>>

\* `.unwrap()` on an Err: the task panics.
OnRadioErr == "panicked"

\* The radio lost its access point: the state becomes Disconnected and a
\* StaDisconnected event is raised.
RadioLinkLost ==
    /\ Running /\ wpc \in WifiAwaitPcs
    /\ sta_state = "Connected"
    /\ sta_state' = "Disconnected"
    /\ UNCHANGED <<wpc, started, wcause, wtrail, attempts, svars, gvars>>

\* `match wifi::sta_state()` at the top of the loop.
WifiSample ==
    /\ wpc = "top"
    /\ WifiStep(IF sta_state = "Connected" THEN "wait_event"
                ELSE "check_started")
    /\ UNCHANGED <<sta_state, started, wcause, wtrail, attempts>>

\* controller.wait_for_event(WifiEvent::StaDisconnected) returned.
WifiDisconnected ==
    /\ wpc = "wait_event"
    /\ sta_state = "Disconnected"
    /\ WifiStep("quiesce")
    /\ wcause' = "disconnected"
    /\ wtrail' = <<>>
    /\ UNCHANGED <<sta_state, started, attempts>>

\* Timer::after(5000 ms) after the event.
WifiQuiesce ==
    /\ wpc = "quiesce"
    /\ WifiStep("check_started")
    /\ wtrail' = Append(wtrail, Timer(WIFI_RETRY_DELAY_MS))
    /\ UNCHANGED <<sta_state, started, wcause, attempts>>

\* `if !matches!(controller.is_started(), Ok(true))`
WifiCheckStarted ==
    /\ wpc = "check_started"
    /\ WifiStep(IF started THEN "connect" ELSE "set_config")
    /\ UNCHANGED <<sta_state, started, wcause, wtrail, attempts>>

\* controller.set_config(&client_config).unwrap()
WifiSetConfig ==
    /\ wpc = "set_config"
    /\ \E ok \in BOOLEAN : WifiStep(IF ok THEN "start" ELSE OnRadioErr)
    /\ UNCHANGED <<sta_state, started, wcause, wtrail, attempts>>

\* controller.start_async().await.unwrap()
WifiStart ==
    /\ wpc = "start"
    /\ \E ok \in BOOLEAN :
        IF ok
        THEN /\ WifiStep("connect")
             /\ started' = TRUE
             /\ sta_state' = "Started"
        ELSE /\ WifiStep(OnRadioErr)
             /\ UNCHANGED <<started, sta_state>>
    /\ UNCHANGED <<wcause, wtrail, attempts>>

Counted(n) == IF n < MaxAttempts THEN n + 1 ELSE n

\* controller.connect_async().await returned Ok.
WifiConnectOk ==
    /\ wpc = "connect"
    /\ WifiStep("top")
    /\ sta_state' = "Connected"
    /\ attempts' = Counted(attempts)
    /\ wcause' = "none"
    /\ wtrail' = <<>>
    /\ UNCHANGED started

\* controller.connect_async().await returned Err(e).
WifiConnectErr ==
    /\ wpc = "connect"
    /\ WifiStep("backoff")
    /\ sta_state' = "Disconnected"
    /\ attempts' = Counted(attempts)
    /\ wcause' = "connect_err"
    /\ wtrail' = <<>>
    /\ UNCHANGED started

\* Timer::after(5000 ms) of the Err arm.
WifiBackoff ==
    /\ wpc = "backoff"
    /\ WifiStep("top")
    /\ wtrail' = Append(wtrail, Timer(WIFI_RETRY_DELAY_MS))
    /\ UNCHANGED <<sta_state, started, wcause, attempts>>

\* The connection task, the network task and main up to the end of the
\* gate; the stack's link follows the station state.
NextWifi ==
    \/ RadioLinkLost
    \/ WifiSample
    \/ WifiDisconnected
    \/ WifiQuiesce
    \/ WifiCheckStarted
    \/ WifiSetConfig
    \/ WifiStart
    \/ WifiConnectOk
    \/ WifiConnectErr
    \/ WifiBackoff
    \/ sta_state = "Connected" /\ NetLinkUp
    \/ sta_state # "Connected" /\ NetLinkDown
    \/ NetConfigured
    \/ NetDeconfigured
    \/ GateLinkPoll
    \/ GateLinkTimer
    \/ GateIpPoll
    \/ GateIpTimer

SpecWifi == Init /\ [][NextWifi]_vars


\* ------------------------------------------------------------- properties
ServePcs == {"read", "scan", "calibrate", "write_body", "write_nl"}

\* handle_line has returned to the scan.
Returned == pc \in {"read", "scan"}

IsSet(cmd) == cmd.ok /\ cmd.ty = "set_value"
IsGet(cmd) == cmd.ok /\ cmd.ty = "get_value"

\* The write_all calls of a handle_line call that responds: the body while
\* pc = "write_body", then the newline, and no third call.
OneResponse ==
    /\ pc \notin {"calibrate", "write_body"} => Len(hl.writes) >= 1
    /\ pc = "write_body" => hl.writes = <<>>
    /\ pc = "write_nl" => Len(hl.writes) = 1
    /\ Returned => Len(hl.writes) = 2
    /\ hl.writes # <<>> /\ hl.writes[1] /\ pc = "write_nl" => tx.last = hl.msg

\* C1: a dispatched set_value{id, v} with v in 0..100 hands ack{id, ok:true}
\* to write_all and leaves the cached value at exactly v; a dispatched
\* get_value{id2} hands value{id2, v} to write_all, v being the value of the
\* latest accepted set_value (0 before the first).
C1_SetThenGet ==
    /\ hl.called /\ IsSet(hl.cmd) /\ IsSome(hl.cmd.id) /\ IsSome(hl.cmd.value)
       /\ Unwrap(hl.cmd.value) \in 0..100
       => /\ hl.msg = Ack(Unwrap(hl.cmd.id))
          /\ hl.msg.ok
          /\ cached_value = Unwrap(hl.cmd.value)
          /\ OneResponse
    /\ hl.called /\ IsGet(hl.cmd) /\ IsSome(hl.cmd.id)
       => /\ hl.msg = Value(Unwrap(hl.cmd.id), accepted)
          /\ cached_value = accepted
          /\ OneResponse

\* C1 witness: after set_value{7, 100} was accepted, get_value{8} has put
\* value{8, 100} on the wire.
C1_Witness ==
    /\ hl.called /\ IsGet(hl.cmd) /\ hl.cmd.id = Some(8)
    /\ accepted = 100
    /\ pc = "write_nl"
    /\ tx.last = Value(8, 100)

\* C2: a dispatched set_value{id, v} with v > 100 hands exactly one
\* response, error{id, "value out of range 0..100"}, to write_all and leaves
\* the cached value as it was, which is the value a get_value returns.
C2_OutOfRange ==
    hl.called /\ IsSet(hl.cmd) /\ IsSome(hl.cmd.id) /\ IsSome(hl.cmd.value)
    /\ Unwrap(hl.cmd.value) > 100
    => /\ hl.msg = Error(Unwrap(hl.cmd.id), "value out of range 0..100")
       /\ cached_value = hl.before
       /\ cached_value = accepted
       /\ OneResponse

\* C2 witness: set_value{8, 298} was rejected while 42 was cached; its
\* response is written and 42 is still cached.
C2_Witness ==
    /\ hl.called /\ IsSet(hl.cmd) /\ hl.cmd.id = Some(8)
    /\ hl.cmd.value = Some(298)
    /\ hl.before = 42 /\ cached_value = 42
    /\ Returned /\ hl.writes = <<TRUE, TRUE>>

\* C3: a dispatched set_value with an id and no value hands exactly one
\* response, error{id, "missing value"}, to write_all and leaves the cached
\* value as it was.
C3_MissingValue ==
    hl.called /\ IsSet(hl.cmd) /\ IsSome(hl.cmd.id) /\ hl.cmd.value = None
    => /\ hl.msg = Error(Unwrap(hl.cmd.id), "missing value")
       /\ cached_value = hl.before
       /\ cached_value = accepted
       /\ OneResponse

\* C3 witness: set_value{7} without a value was answered while 42 was cached.
C3_Witness ==
    /\ hl.called /\ IsSet(hl.cmd) /\ hl.cmd.id = Some(7) /\ hl.cmd.value = None
    /\ hl.before = 42 /\ cached_value = 42
    /\ pc = "write_nl" /\ tx.last = Error(7, "missing value")

\* A line the protocol absorbs: it does not parse, its type is none of the
\* three commands, or it is a command without an id.
Absorbed(cmd) ==
    \/ ~cmd.ok
    \/ cmd.ty \notin {"set_value", "get_value", "calibrate"}
    \/ cmd.id = None

\* C4: a dispatched line that does not parse, has another type or has no id
\* (a set_value with a valid value included) causes no write_all call, no
\* change of the cached value and no calibration, and the scan goes on with
\* the next byte or the next read of the same session.
C4_SilentlyAbsorbed ==
    hl.called /\ Absorbed(hl.cmd)
    => /\ hl.msg = NoMsg
       /\ hl.writes = <<>>
       /\ ~hl.cal
       /\ cached_value = hl.before
       /\ cached_value = accepted
       /\ Returned
       /\ line_len = 0

\* C4 witness: set_value without an id and with value 100 was dispatched
\* while 42 was cached; the scan is at the next byte of the chunk.
C4_Witness ==
    /\ hl.called /\ IsSet(hl.cmd) /\ hl.cmd.id = None
    /\ hl.cmd.value = Some(100)
    /\ hl.before = 42 /\ cached_value = 42
    /\ pc = "scan"


\* C5: no part of a line that overflowed line_buf is handed to handle_line.
\* (The scan resets line_len at the overflowing byte and then stores the
\* bytes that follow it, so the rest of the line is handed over at its
\* line-feed.)
C5_OversizedLineDiscarded == hl.called => ~hl.tail

\* C6: a line-feed that ends a line which is not valid UTF-8 hands nothing
\* to handle_line, writes nothing, leaves the cached value unchanged, resets
\* line_len to 0 and leaves the scan at the next byte or read.
C6_NonUtf8Dropped ==
    [][pc = "scan" /\ ~Utf8Valid(line_buf) /\ ev' \notin {"byte", "overflow"}
       => /\ ev' = "non_utf8"
          /\ hl' = NoCall
          /\ line_buf' = <<>>
          /\ ~overflowed'
          /\ pc' = Resume(chunk_left')
          /\ UNCHANGED <<cached_value, accepted, tx, write_failed>>]_vars

\* C6 witness: a line that is not UTF-8 was dropped in the middle of a
\* chunk, with 42 cached.
C6_Witness ==
    /\ ev = "non_utf8"
    /\ line_len = 0
    /\ pc = "scan"
    /\ cached_value = 42

\* C7: once a write_all of a response has failed, the session is out of the
\* serve phase: no further write, dispatch or read on that socket.
\* (handle_line only logs the error; the newline write, the rest of the
\* chunk and the next read follow.)
C7_WriteFailureEndsServe == write_failed => pc \notin ServePcs

\* C8: after a read returned Ok(0) the session is over; the next connect
\* call comes after the 2000 ms reconnect delay (and the 1000 ms delay at the
\* top of the loop), it is the only connect call before the register
\* message, and the register message is the first item on the new socket.
C8_EofReconnect ==
    /\ ended = "eof" => pc \in {"reconnect", "delay", "connect", "reg_body", "reg_nl"}
    /\ ended = "eof" /\ pc = "reconnect" => trail = <<>>
    /\ ended = "eof" /\ pc = "delay" => trail = <<Timer(RECONNECT_DELAY_MS)>>
    /\ ended = "eof" /\ pc = "connect"
       => /\ trail = <<Timer(RECONNECT_DELAY_MS), Timer(INTER_ATTEMPT_DELAY_MS)>>
          /\ tx = NoTx
    /\ ended = "eof" /\ pc \in {"reg_body", "reg_nl"}
       => trail = <<Timer(RECONNECT_DELAY_MS), Timer(INTER_ATTEMPT_DELAY_MS),
                    ConnectCall>>
    /\ ended = "eof" /\ pc = "reg_body" => tx = NoTx
    /\ ended = "eof" /\ pc = "reg_nl"
       => tx = [first |-> Register, last |-> Register, regs |-> 1]

\* C8 witness: after a remote close, the register message is on the new
\* socket.
C8_Witness == ended = "eof" /\ pc = "reg_nl" /\ tx.last = Register

\* C9: after a failed connect nothing is written or read on that socket;
\* the loop waits 2000 ms and starts over (1000 ms, then a new connect call).
C9_ConnectFailure ==
    /\ pc = "connect_err" => ended = "connect_err" /\ trail = <<>> /\ tx = NoTx
    /\ ended = "connect_err"
       => pc \in {"connect_err", "delay", "connect", "reg_body", "reg_nl"}
    /\ ended = "connect_err" /\ pc = "delay"
       => trail = <<Timer(RECONNECT_DELAY_MS)>>
    /\ ended = "connect_err" /\ pc = "connect"
       => /\ trail = <<Timer(RECONNECT_DELAY_MS), Timer(INTER_ATTEMPT_DELAY_MS)>>
          /\ tx = NoTx
    /\ ended = "connect_err" /\ pc \in {"reg_body", "reg_nl"}
       => trail = <<Timer(RECONNECT_DELAY_MS), Timer(INTER_ATTEMPT_DELAY_MS),
                    ConnectCall>>

\* C9 witness: a connect failed, both delays have passed and the next
\* connect call is due, with nothing written meanwhile.
C9_Witness == ended = "connect_err" /\ pc = "connect" /\ tx = NoTx

\* C10: on a connected socket the register message is the first item
\* written and is written at most once; the serve phase (every read) starts
\* only after the register message and its line-feed were written.
C10_RegisterOnce ==
    /\ tx.regs <= 1
    /\ tx.first \in {NoMsg, Register}
    /\ pc = "reg_body" => tx = NoTx
    /\ pc = "reg_nl" => tx = [first |-> Register, last |-> Register, regs |-> 1]
    /\ pc \in ServePcs => tx.first = Register /\ tx.regs = 1
    /\ pc = "read" /\ ev = "none"
       => tx = [first |-> Register, last |-> Newline, regs |-> 1]

\* C10 witness: the first read of a session is due; the register message
\* and its line-feed are the only items written.
C10_Witness ==
    /\ pc = "read" /\ ev = "none"
    /\ tx = [first |-> Register, last |-> Newline, regs |-> 1]


IsCalibrate(cmd) == cmd.ok /\ cmd.ty = "calibrate"

\* A call of handle_line whose response is not completely written yet.
Pending == hl.called /\ hl.msg # NoMsg /\ Len(hl.writes) < 2

\* A step that hands a line to handle_line.
DispatchStep == hl'.called /\ hl'.writes = <<>> /\ ~hl'.cal /\ hl' # hl

\* C11: within a session lines are dispatched in the order their line-feeds
\* are received and responses are written in dispatch order: a line is
\* handed to handle_line only by the scan, at its line-feed, as the text
\* buffered since the previous line-feed; while the response of a call is
\* still to be written no further byte is scanned, no read is issued and no
\* other line is dispatched; every response written is the one of the call
\* in progress; the scan resumes only when the response has been written.
C11_DispatchInOrder ==
    /\ [](Returned => ~Pending)
    /\ [][DispatchStep =>
            /\ pc = "scan" /\ ~Pending
            /\ ev' = "line"
            /\ hl'.cmd = Parse(LineText(line_buf))]_vars
    /\ [][Pending =>
            /\ hl'.called /\ hl'.cmd = hl.cmd /\ hl'.msg = hl.msg
            /\ chunk_left' = chunk_left /\ ev' = ev
            /\ cached_value' = cached_value
            /\ (tx' # tx => tx'.last \in {hl.msg, Newline})]_vars

\* After an accepted set_value a later line, a get_value, is being answered
\* with the stored value while bytes of the read are still waiting to be
\* scanned.
C11_Witness ==
    /\ pc = "write_nl" /\ IsGet(hl.cmd) /\ hl.writes = <<TRUE>>
    /\ accepted = 42 /\ ~write_failed
    /\ tx.last = Value(Unwrap(hl.cmd.id), 42)
    /\ chunk_left > 0


\* C14: the cached setpoint starts at 0 and is an integer of 0..100 in
\* every reachable state.
C14_SetpointInRange ==
    /\ cached_value = 0
    /\ [](cached_value \in 0..MAX_VALUE)

\* The setpoint is at the upper end of the range and a set_value of 101
\* has just been refused.
C14_Witness ==
    /\ cached_value = MAX_VALUE
    /\ hl.called /\ IsSet(hl.cmd) /\ hl.cmd.value = Some(MAX_VALUE + 1)
    /\ hl.before = MAX_VALUE

\* C15: the cached setpoint changes only in the step that dispatches a
\* set_value carrying an id and a value of 0..100, and then becomes that
\* value; every other step (get_value, calibrate, connect, register,
\* framing, writes, the end of a session, the delays before a new attempt)
\* leaves it as it is, so a new session starts with the value of the last
\* one.
C15_OnlySetValueChangesSetpoint ==
    [][cached_value' # cached_value =>
        /\ pc = "scan" /\ DispatchStep
        /\ IsSet(hl'.cmd) /\ IsSome(hl'.cmd.id) /\ IsSome(hl'.cmd.value)
        /\ Unwrap(hl'.cmd.value) \in 0..MAX_VALUE
        /\ cached_value' = Unwrap(hl'.cmd.value)]_vars

\* A later session is registered and about to issue its first read, and
\* the setpoint is still the 42 stored in an earlier session.
C15_Witness ==
    /\ pc = "read" /\ ev = "none" /\ ~hl.called
    /\ tx = [first |-> Register, last |-> Newline, regs |-> 1]
    /\ cached_value = 42 /\ accepted = 42


\* C16: the line buffer never holds more bytes than its capacity, and its
\* length is 0 right after every processed line-feed (line dispatched and
\* handle_line returned, empty line, line that is not UTF-8) and right
\* after every overflow.
C16_LineLenBounded ==
    /\ line_len \in 0..LineBufLen
    /\ ev \in {"empty", "non_utf8", "overflow"} => line_len = 0
    /\ ev = "line" /\ Returned => line_len = 0

\* A byte arrived on a full buffer: the buffer was emptied.
C16_Witness == ev = "overflow" /\ overflowed /\ line_len = 0 /\ pc = "scan"


\* A call of handle_line for a calibrate line that carries an id.
CalibrateCall == hl.called /\ IsCalibrate(hl.cmd) /\ IsSome(hl.cmd.id)

\* C19: for a calibrate line with an id the calibration routine runs
\* exactly once, before anything of the response is written; the response
\* is the ack with that id; from the start of the routine to the end of
\* the response no read is issued, no byte is scanned and no other line is
\* dispatched: bytes of the chunk that arrived with the line stay where
\* they are and are scanned afterwards in their order.
C19_CalibrateThenAck ==
    /\ [](/\ pc = "calibrate" => CalibrateCall /\ ~hl.cal /\ hl.writes = <<>>
          /\ CalibrateCall /\ pc # "calibrate" => hl.cal
          /\ CalibrateCall => hl.msg = Ack(Unwrap(hl.cmd.id)))
    /\ [][hl'.called /\ hl'.cal # hl.cal =>
            /\ pc = "calibrate" /\ hl'.cal /\ hl'.writes = <<>>
            /\ pc' = "write_body"]_vars
    /\ [][CalibrateCall /\ Pending =>
            /\ hl'.cmd = hl.cmd /\ (hl.cal => hl'.cal)
            /\ chunk_left' = chunk_left /\ peer' = peer
            /\ pc' # "read" \/ (chunk_left = 0 /\ Len(hl'.writes) = 2)
            /\ pc' = "scan" => Len(hl'.writes) = 2]_vars

\* The routine has run, the ack has been handed to write_all, and bytes
\* that arrived in the same read as the calibrate line are still waiting.
C19_Witness ==
    /\ CalibrateCall /\ hl.cal /\ pc = "write_nl" /\ hl.writes = <<TRUE>>
    /\ tx.last = Ack(Unwrap(hl.cmd.id))
    /\ chunk_left > 0


C17_ChunkingIndependent ==
    /\ [](pc \in ServePcs => line_buf = unchunked)
    /\ [][DispatchStep => hl'.cmd = Parse(LineText(unchunked))]_vars
    /\ [][(pc = "read") /\ (pc' = "scan") =>
            /\ line_buf' = line_buf /\ overflowed' = overflowed
            /\ cached_value' = cached_value /\ tx' = tx]_vars

\* The line-feed of a set_value line was the first byte of a read of full
\* size: the text of the line arrived in earlier reads.
C17_Witness ==
    /\ pc = "write_body" /\ IsSet(hl.cmd) /\ IsSome(hl.cmd.id)
    /\ chunk_left = ChunkLen - 1
    /\ cached_value = 42 /\ hl.before = 0

\* C18: every session starts with an empty line buffer: until the first
\* byte of the session is scanned the buffer is empty, whatever the
\* previous session left in it, and nothing is dispatched between two
\* sessions, so bytes of an unterminated line of an ended session are
\* neither dispatched nor put in front of the bytes of a later one.
C18_SessionStartsEmpty ==
    /\ [](Returned /\ ev = "none" => line_buf = <<>> /\ ~overflowed)
    /\ [](stale => pc = "read" /\ line_buf = <<>> /\ ~hl.called)
    /\ [][(pc = "reg_nl") /\ (pc' = "read") => line_buf' = <<>>]_vars
    /\ [][pc \notin ServePcs => ~DispatchStep]_vars

\* A session has begun while bytes of the previous one were buffered, and
\* its buffer is empty.
C18_Witness == stale /\ pc = "read" /\ line_buf = <<>> /\ ended = "none"


\* The task is on its way to a connect_async call, or in it.
TowardsConnect == wpc \in {"check_started", "set_config", "start", "connect"}

\* C12: the connection task makes no connect attempt while the station is
\* Connected; after a StaDisconnected event, and after every failed
\* attempt, it lets exactly one 5000 ms timer pass and then makes one
\* attempt; it does so without end: the task has no terminal state.
C12_LinkSupervisor ==
    /\ wpc \in WifiTaskPcs
    /\ sta_state = "Connected" => wpc \in {"top", "wait_event"}
    /\ wcause = "disconnected" =>
          \/ wpc = "quiesce" /\ wtrail = <<>>
          \/ TowardsConnect /\ wtrail = <<Timer(WIFI_RETRY_DELAY_MS)>>
    /\ wcause = "connect_err" =>
          \/ wpc = "backoff" /\ wtrail = <<>>
          \/ wpc = "top" /\ wtrail = <<Timer(WIFI_RETRY_DELAY_MS)>>
          \/ TowardsConnect /\ wtrail = <<Timer(WIFI_RETRY_DELAY_MS)>>

\* C13: no failure of the radio or of the transport ends a task or the
\* process: the connection task and main are always at a point of their
\* loops.
C13_NoFailureIsFatal ==
    /\ Running
    /\ pc \in GatePcs \cup ServePcs \cup
             {"delay", "connect", "connect_err", "reg_body", "reg_nl",
              "reconnect"}


\* C21: what reaches the socket of a session is a sequence of message
\* bodies each followed by one line-feed: the line-feed of a response is
\* written only when its body was written, and a body is written only
\* when the last item on the socket is a line-feed.
C21_WireWellFormed ==
    /\ hl.called /\ Len(hl.writes) = 2 /\ hl.writes[2] => hl.writes[1]
    /\ pc = "write_body" => tx.last = Newline
    /\ pc = "reg_nl" => tx.last = Register


\* C23: every connect attempt after the first comes after the 2000 ms
\* reconnect delay followed by the 1000 ms inter-attempt delay, whatever
\* ended the previous attempt.
C23_BothDelaysBeforeConnect ==
    pc = "connect" /\ ended # "none" =>
        trail = <<Timer(RECONNECT_DELAY_MS), Timer(INTER_ATTEMPT_DELAY_MS)>>


\* A call of handle_line for a set_value with an id and a value of 0..100.
AcceptedSet ==
    /\ hl.called /\ IsSet(hl.cmd) /\ IsSome(hl.cmd.id)
    /\ IsSome(hl.cmd.value) /\ Unwrap(hl.cmd.value) \in 0..MAX_VALUE

\* C24: for an accepted set_value the setpoint is the new value from
\* before the ack is handed to write_all on, and no write, failed or not,
\* changes it: when the ack is written the setpoint equals the value, and
\* after a failed ack write it still does.
C24_SetBeforeAckNoRollback ==
    /\ [](AcceptedSet =>
            /\ cached_value = Unwrap(hl.cmd.value)
            /\ hl.msg = Ack(Unwrap(hl.cmd.id)))
    /\ [](pc = "write_body" /\ AcceptedSet => hl.writes = <<>>)
    /\ [][(pc \in {"write_body", "write_nl"}) =>
            cached_value' = cached_value]_vars

\* The ack of set_value{.., 42} could not be written, handle_line has
\* returned, and the setpoint is 42 where it was 0 before.
C24_Witness ==
    /\ AcceptedSet /\ Returned
    /\ hl.writes[1] = FALSE
    /\ hl.before = 0 /\ cached_value = 42


\* An attempt or a session has just ended and no connect call was made
\* since.
JustEnded ==
    \/ pc \in {"connect_err", "reconnect"}
    \/ pc = "delay" /\ ended # "none"

\* C22: with timers that fire and transport operations that complete,
\* after every connect failure, register write failure, remote close and
\* read error a new connect attempt follows, and from every state of the
\* client loop a connect attempt or a read is reached again.
C22_AlwaysRecovers ==
    /\ JustEnded ~> (pc = "connect")
    /\ (pc \notin GatePcs) ~> (pc \in {"connect", "read"})

\* The connect attempt that follows a failed register write.
C22_Witness ==
    /\ pc = "connect" /\ ended = "register_err"
    /\ trail = <<Timer(INTER_ATTEMPT_DELAY_MS)>>

=============================================================================
